---- MODULE Spec2Model ----
(***************************************************************************)
(* Process lifecycle manager of uv-dash: the runner (src/main/apps/        *)
(* runner.ts), the liveness probe (process-monitor.ts) and the callers in  *)
(* the main process (src/main/index.ts) that launch, stop and recover      *)
(* supervised child processes.                                             *)
(*                                                                         *)
(* One action per handler.  A handler that awaits is split at the await,   *)
(* because other handlers of the event loop run while it is suspended.     *)
(***************************************************************************)
EXTENDS Integers, Sequences, FiniteSets, TLC

\* ---------------------------------------------------------------- bounds
\* the app ids that may be installed, in the order apps.json lists them
AppOrder == <<"a1", "a2">>
Apps == {AppOrder[i] : i \in 1..Len(AppOrder)}
\* number of process handles (spawned or adopted) created in one behaviour
MaxHandles == 2
\* in-flight requests of one kind that may overlap on one app / one handle
MaxOverlap == 2
\* the stop-notification counter saturates here
MaxNotify == 2
Ports == {5000}
\* length of the log file, in characters
MaxLog == 4
\* length of the log file when the tailer starts
MaxInitial == 2
\* read streams of one tailer that may be open at once
MaxStreams == 2
\* the characters of the log file: a letter and the line terminator
LF == "\n"
Chars == {"a", LF}

NoPid == 0
NoPort == 0

VARIABLES
  up,                     \* the supervisor (Electron main process) is running
  isWindows,              \* process.platform === 'win32'
  nextId,                 \* next fresh handle id; a spawned child's pid is its handle id
  osAlive,                \* pids alive in the OS process table
  handles,                \* handle objects of this run: id -> [app, kind, pid]
  emitted,                \* events already emitted by each handle
  runningProcesses,       \* Map appId -> ProcessInfo
  stoppingProcesses,      \* Map appId -> kill-fallback timeout
  statsMonitoringTimers,  \* Map appId -> health-poll interval (its key set)
  logPollTimers,          \* handles whose log-poll interval is active
  watchTimers,            \* adopted handles whose watch interval is active
  killTimers,             \* pending kill-fallback timeouts
  killCallbacks,          \* SIGKILL deliveries whose completion callback is pending
  stopCalls,              \* stopApp calls suspended on the graceful-signal delivery
  runCalls,               \* run-app handlers suspended on the secrets import
  apps,                   \* Map appId -> app record [status, pid, port]
  persisted,              \* apps.json: appId -> [pid, port]
  saveAppsTimer,          \* a debounced save is pending
  notified,               \* per handle: number of onProcessStopped invocations
  lastRecovery,           \* per app: what the recovery pass of this run found in apps.json
  \* the log tailer of one process, seen apart from the rest
  logFile,                \* the characters of the process's log file
  lastPosition,           \* startLogPolling: the offset the next poll reads from
  streams,                \* read streams opened by polls and not ended yet: [start, size]
  forwarded,              \* the lines passed to onLog so far
  recovered,              \* the tailer was started by recoverProcess (else by runApp)
  atAdoption,             \* the log file as it was when the tailer was started
  shrink,                 \* "no", "shrunk" (the file was emptied), "polled" (and a poll ran since)
  \* one call of a function that reads no state, seen apart from the rest
  fn,                     \* the function called: "health", "sniff", "runApp", "stats"; "none": no call
  arg,                    \* its argument
  out,                    \* <<>> while the call has not returned, then <<its result>>
  \* handlers seen with awaits the specifications above take in one step
  healthCalls,            \* health ticks suspended on getProcessStats: [app, h, status, isAlive]
  removeCalls             \* apps whose remove-app handler is suspended after calling stopApp

supervisorVars == <<up, isWindows, nextId, osAlive, handles, emitted, runningProcesses,
                    stoppingProcesses, statsMonitoringTimers, logPollTimers, watchTimers,
                    killTimers, killCallbacks, stopCalls, runCalls, apps, persisted,
                    saveAppsTimer, notified, lastRecovery>>

tailVars == <<logFile, lastPosition, streams, forwarded, recovered, atAdoption, shrink>>

pureVars == <<fn, arg, out>>

awaitVars == <<healthCalls, removeCalls>>

vars == <<supervisorVars, tailVars, pureVars, awaitVars, awaitVars>>

\* ---------------------------------------------------------------- helpers
EmptyMap == [x \in {} |-> 0]
Del(f, k) == [x \in DOMAIN f \ {k} |-> f[x]]
Put(f, k, v) == [x \in DOMAIN f \cup {k} |-> IF x = k THEN v ELSE f[x]]
Min(x, y) == IF x < y THEN x ELSE y
Idx(a) == CHOOSE i \in 1..Len(AppOrder) : AppOrder[i] = a

InstalledApp == [status |-> "installed", pid |-> NoPid, port |-> NoPort]

\* process-monitor.ts isProcessAlive: signal 0 probe
isProcessAlive(pid) == pid \in osAlive

\* runner.ts isRunning
isRunning(a) ==
  /\ a \in DOMAIN runningProcesses
  /\ handles[runningProcesses[a].process].pid # NoPid
  /\ isProcessAlive(handles[runningProcesses[a].process].pid)

\* persistence.ts saveApps: pid and port of every app record are written
saveApps(m) == [a \in DOMAIN m |-> [pid |-> m[a].pid, port |-> m[a].port]]

\* index.ts handleProcessStopped: the record written for a stopped app
StoppedAppMutant(rec) == [rec EXCEPT !.status = "installed", !.pid = NoPid]
StoppedApp(rec) == [rec EXCEPT !.status = "installed", !.pid = NoPid, !.port = NoPort]

\* runner.ts stopLogPolling, evaluated against the registry rp it finds:
\* the log-poll intervals it clears
stopLogPolling(rp, a) ==
  IF a \in DOMAIN rp /\ rp[a].logPollInterval THEN {rp[a].process} ELSE {}


\* ---------------------------------------------------------------- initial state
\* The supervisor has started with the apps of S installed and nothing running.
InitWith(S) ==
  /\ up = TRUE
  /\ isWindows \in BOOLEAN
  /\ nextId = 1
  /\ osAlive = {}
  /\ handles = EmptyMap
  /\ emitted = EmptyMap
  /\ runningProcesses = EmptyMap
  /\ stoppingProcesses = EmptyMap
  /\ statsMonitoringTimers = {}
  /\ logPollTimers = {}
  /\ watchTimers = {}
  /\ killTimers = {}
  /\ killCallbacks = {}
  /\ stopCalls = {}
  /\ runCalls = <<>>
  /\ apps = [a \in S |-> InstalledApp]
  /\ persisted = [a \in S |-> [pid |-> NoPid, port |-> NoPort]]
  /\ saveAppsTimer = FALSE
  /\ notified = EmptyMap
  /\ lastRecovery = [a \in S |-> "none"]
  /\ healthCalls = {}
  /\ removeCalls = {}

\* no log tailer is looked at
TailIdle ==
  /\ logFile = <<>>
  /\ lastPosition = 0
  /\ streams = <<>>
  /\ forwarded = <<>>
  /\ recovered = FALSE
  /\ atAdoption = <<>>
  /\ shrink = "no"

\* no function call is looked at
PureIdle ==
  /\ fn = "none"
  /\ arg = <<>>
  /\ out = <<>>

Init == InitWith({"a1"}) /\ TailIdle /\ PureIdle

\* the "clear timeout if set" block of the error and close handlers
clearStoppingTimeout(a) ==
  /\ killTimers' = IF a \in DOMAIN stoppingProcesses
                     THEN killTimers \ {stoppingProcesses[a]} ELSE killTimers
  /\ stoppingProcesses' = Del(stoppingProcesses, a)


\* ---------------------------------------------------------------- launch
\* runner.ts runApp, first check
AlreadyRunningMutant(a) == FALSE
AlreadyRunning(a) == a \in DOMAIN runningProcesses

\* runner.ts runApp: what the call returns.  cmd is the run command as it
\* reaches the tokeniser: "none" (undefined and nothing auto-detected),
\* "empty" (tokenises to no argument) or "ok".  io is what opening the log
\* file and spawning do: "throw" (synchronous exception), "enoent" (spawn
\* returns a ChildProcess without pid and reports the failure by an 'error'
\* event later) or "ok".
RunAppResult(a, cmd, io) ==
  IF AlreadyRunning(a) THEN "already_running"
  ELSE IF cmd = "none" THEN "no_command"
  ELSE IF cmd = "empty" THEN "empty_command"
  ELSE IF io = "throw" THEN "start_failed"
  ELSE "success"

\* runner.ts runApp: setupProcessHandlers is reached only by the return
\* statements that follow a spawn call that did not throw
RegistersMutant(res) == res \in {"success", "start_failed"}
Registers(res) == res = "success"

\* runner.ts setupProcessHandlers for handle h of app a
setupProcessHandlers(h, a, kind) ==
  /\ runningProcesses' = Put(runningProcesses, a, [process |-> h, logPollInterval |-> TRUE])
  /\ logPollTimers' = logPollTimers \cup {h}
  /\ statsMonitoringTimers' = statsMonitoringTimers \cup {a}
  /\ watchTimers' = IF kind = "adopted" THEN watchTimers \cup {h} ELSE watchTimers

\* index.ts run-app handler from the call of runApp on; snap is the app
\* record the handler read when it started.
\* A spawn that fails with ENOENT returns a ChildProcess without pid and
\* queues, with process.nextTick, a callback that emits 'error' and then, no
\* stdio stream being open, 'close'; both are handled synchronously.  That
\* callback and the continuation of the handler's await on runApp run before
\* any other handler.  order says which of the two runs first: "tick" (the
\* nextTick queue is drained first) or "microtask" (the continuation first).
RunAppBody(a, snap, cmd, io, order) ==
  LET res == RunAppResult(a, cmd, io)
      h == nextId
      pid == IF io = "ok" THEN h ELSE NoPid
      rp1 == Put(runningProcesses, a, [process |-> h, logPollInterval |-> TRUE])
      returned == [snap EXCEPT !.status = "running", !.pid = pid]
  IN
  /\ Registers(res) => nextId <= MaxHandles
  /\ IF Registers(res)
       THEN /\ nextId' = nextId + 1
            /\ handles' = Put(handles, h, [app |-> a, kind |-> "spawned", pid |-> pid])
            /\ osAlive' = IF pid # NoPid THEN osAlive \cup {pid} ELSE osAlive
            /\ IF io = "enoent"
                 THEN \* setupProcessHandlers, then the 'error' handler, then
                      \* the 'close' handler, which finds nothing left to release
                      /\ emitted' = Put(emitted, h, {"error", "close"})
                      /\ notified' = Put(notified, h, Min(2, MaxNotify))
                      /\ runningProcesses' = Del(rp1, a)
                      /\ logPollTimers' = (logPollTimers \cup {h}) \ stopLogPolling(Del(rp1, a), a)
                      /\ statsMonitoringTimers' = statsMonitoringTimers \ {a}
                      /\ clearStoppingTimeout(a)
                      /\ UNCHANGED watchTimers
                 ELSE /\ emitted' = Put(emitted, h, {})
                      /\ notified' = Put(notified, h, 0)
                      /\ setupProcessHandlers(h, a, "spawned")
                      /\ UNCHANGED <<stoppingProcesses, killTimers>>
       ELSE UNCHANGED <<nextId, handles, emitted, notified, osAlive, runningProcesses,
                        logPollTimers, statsMonitoringTimers, watchTimers,
                        stoppingProcesses, killTimers>>
  /\ apps' = [apps EXCEPT ![a] =
                IF res # "success" THEN [snap EXCEPT !.status = "error"]
                ELSE IF io = "enoent" /\ order = "microtask" THEN StoppedApp(returned)
                ELSE returned]
  /\ persisted' = IF res = "success" THEN saveApps(apps') ELSE persisted
  /\ UNCHANGED <<up, isWindows, tailVars, pureVars, awaitVars, killCallbacks, stopCalls, saveAppsTimer, lastRecovery>>

\* index.ts run-app handler: the request is refused before runApp is called
RunAppRejected(a) ==
  /\ up
  /\ \/ apps[a].status # "installed"
     \/ isRunning(a)
  /\ UNCHANGED <<up, isWindows, tailVars, pureVars, awaitVars, nextId, osAlive, handles, emitted, runningProcesses,
                 stoppingProcesses, statsMonitoringTimers, logPollTimers, watchTimers,
                 killTimers, killCallbacks, stopCalls, runCalls, apps, persisted,
                 saveAppsTimer, notified, lastRecovery>>

\* index.ts run-app handler, app record without secretRefs: runs to completion
RunAppDirect(a, cmd, io, order) ==
  /\ up
  /\ apps[a].status = "installed"
  /\ ~isRunning(a)
  /\ RunAppBody(a, apps[a], cmd, io, order)
  /\ UNCHANGED runCalls

\* index.ts run-app handler, app record with secretRefs: suspends on the import
RunAppAwait(a) ==
  /\ up
  /\ apps[a].status = "installed"
  /\ ~isRunning(a)
  /\ Len(runCalls) < MaxOverlap
  /\ runCalls' = Append(runCalls, [id |-> a, app |-> apps[a]])
  /\ UNCHANGED <<up, isWindows, tailVars, pureVars, awaitVars, nextId, osAlive, handles, emitted, runningProcesses,
                 stoppingProcesses, statsMonitoringTimers, logPollTimers, watchTimers,
                 killTimers, killCallbacks, stopCalls, apps, persisted,
                 saveAppsTimer, notified, lastRecovery>>

\* index.ts run-app handler resumed after the import: it runs as a promise
\* job, so the continuation of its await on runApp precedes the nextTick queue
RunAppResume(cmd, io) ==
  /\ up
  /\ runCalls # <<>>
  /\ runCalls' = Tail(runCalls)
  /\ RunAppBody(Head(runCalls).id, Head(runCalls).app, cmd, io, "microtask")


\* ---------------------------------------------------------------- stop notification
\* a stop notification that marks every app stopped
handleProcessStoppedMutant(a, h) ==
  /\ apps' = [x \in DOMAIN apps |-> StoppedApp(apps[x])]
  /\ persisted' = saveApps(apps')
  /\ notified' = [notified EXCEPT ![h] = Min(@ + 1, MaxNotify)]

\* index.ts handleProcessStopped (the onProcessStopped callback of app a),
\* invoked on behalf of handle h
handleProcessStopped(a, h) ==
  /\ apps' = [apps EXCEPT ![a] = StoppedApp(@)]
  /\ persisted' = saveApps(apps')
  /\ notified' = [notified EXCEPT ![h] = Min(@ + 1, MaxNotify)]

\* a cleanup that leaves the registry entry in place
cleanupProcessResourcesMutant(a) ==
  /\ runningProcesses' = runningProcesses
  /\ logPollTimers' = logPollTimers \ stopLogPolling(Del(runningProcesses, a), a)
  /\ statsMonitoringTimers' = statsMonitoringTimers \ {a}

\* runner.ts cleanupProcessResources
cleanupProcessResources(a) ==
  /\ runningProcesses' = Del(runningProcesses, a)
  /\ logPollTimers' = logPollTimers \ stopLogPolling(Del(runningProcesses, a), a)
  /\ statsMonitoringTimers' = statsMonitoringTimers \ {a}

\* runner.ts setupProcessHandlers, the 'close' handler of handle h
closeHandler(h) ==
  LET a == handles[h].app IN
  /\ clearStoppingTimeout(a)
  /\ watchTimers' = watchTimers \ {h}
  /\ cleanupProcessResources(a)
  /\ handleProcessStopped(a, h)

\* ---------------------------------------------------------------- native events
\* A ChildProcess emits 'close' once the child has ended.
CloseEvent(h) ==
  /\ up
  /\ h \in DOMAIN handles
  /\ handles[h].kind = "spawned"
  /\ "close" \notin emitted[h]
  /\ handles[h].pid # NoPid
  /\ ~isProcessAlive(handles[h].pid)
  /\ closeHandler(h)
  /\ emitted' = [emitted EXCEPT ![h] = @ \cup {"close"}]
  /\ UNCHANGED <<up, isWindows, tailVars, pureVars, awaitVars, nextId, osAlive, handles, killCallbacks, stopCalls,
                 runCalls, saveAppsTimer, lastRecovery>>

\* runner.ts RecoveredProcessHandle.startWatch, one tick that finds the pid
\* dead: stopWatch, then 'close' is emitted and handled synchronously
WatchTick(h) ==
  /\ up
  /\ h \in watchTimers
  /\ ~isProcessAlive(handles[h].pid)
  /\ closeHandler(h)
  /\ emitted' = [emitted EXCEPT ![h] = @ \cup {"close"}]
  /\ UNCHANGED <<up, isWindows, tailVars, pureVars, awaitVars, nextId, osAlive, handles, killCallbacks, stopCalls,
                 runCalls, saveAppsTimer, lastRecovery>>

\* ---------------------------------------------------------------- health poll
\* a classification whose grace period ends one millisecond early
HealthStatusMutant(alive, age) ==
  IF alive THEN "running" ELSE IF age >= 5000 THEN "zombie" ELSE "unknown"

\* process-monitor.ts getProcessStats: the status of a sample
HealthStatus(alive, age) ==
  IF alive THEN "running" ELSE IF age > 5000 THEN "zombie" ELSE "unknown"

\* runner.ts startStatsMonitoring, one tick for app a; age is Date.now() - startTime.
\* The probe runs synchronously inside getProcessStats; only a sample of a
\* live process suspends the tick, and such a sample leads to no cleanup.
HealthTick(a, age) ==
  /\ up
  /\ a \in statsMonitoringTimers
  /\ IF a \notin DOMAIN runningProcesses
       THEN /\ statsMonitoringTimers' = statsMonitoringTimers \ {a}
            /\ UNCHANGED <<runningProcesses, logPollTimers, apps, persisted, notified>>
       ELSE LET h == runningProcesses[a].process
                pid == handles[h].pid
                status == HealthStatus(isProcessAlive(pid), age)
            IN IF pid # NoPid /\ (status = "zombie" \/ ~isProcessAlive(pid))
                 THEN \* cleanupTerminatedProcess
                      /\ cleanupProcessResources(a)
                      /\ handleProcessStopped(a, h)
                 ELSE UNCHANGED <<runningProcesses, logPollTimers, statsMonitoringTimers,
                                     apps, persisted, notified>>
  /\ UNCHANGED <<up, isWindows, tailVars, pureVars, awaitVars, nextId, osAlive, handles, emitted, stoppingProcesses,
                 watchTimers, killTimers, killCallbacks, stopCalls, runCalls,
                 saveAppsTimer, lastRecovery>>


\* ---------------------------------------------------------------- terminate
\* runner.ts stopApp, the checks made before anything is touched
StopAppCheck(a) ==
  IF a \notin DOMAIN runningProcesses THEN "not_running"
  ELSE IF handles[runningProcesses[a].process].pid = NoPid THEN "no_pid"
  ELSE IF a \in DOMAIN stoppingProcesses THEN "already_stopping"
  ELSE "proceed"

\* serial numbers of the stopApp calls and fallback timeouts of handle h still around
UsedSerials(h) == {c.n : c \in {d \in stopCalls \cup killTimers : d.h = h}}
FreeSerial(h) == CHOOSE n \in 1..MaxOverlap :
                   /\ n \notin UsedSerials(h)
                   /\ \A m \in 1..(n - 1) : m \in UsedSerials(h)

\* what a stop request returns before it suspends: the refusal of the
\* index.ts stop-app handler, a failed check of runner.ts stopApp, the catch
\* clause of stopApp, or nothing yet ("pending")
StopAppResult(a, exc) ==
  IF ~isRunning(a) THEN "not_running"
  ELSE IF StopAppCheck(a) # "proceed" THEN StopAppCheck(a)
  ELSE IF exc THEN "stop_failed"
  ELSE "pending"

\* index.ts stop-app handler: refused before stopApp is called
StopAppRejected(a) ==
  /\ up
  /\ ~isRunning(a)
  /\ UNCHANGED <<up, isWindows, tailVars, pureVars, awaitVars, nextId, osAlive, handles, emitted, runningProcesses,
                 stoppingProcesses, statsMonitoringTimers, logPollTimers, watchTimers,
                 killTimers, killCallbacks, stopCalls, runCalls, apps, persisted,
                 saveAppsTimer, notified, lastRecovery>>

\* index.ts stop-app handler calling runner.ts stopApp, up to its first await.
\* exc: the synchronous call that sends the graceful signal throws; the
\* promise it is made in rejects and the catch clause returns "stop failed".
\* (On Windows the signal is sent after the flush wait, not in this step.)
StopAppCall(a, exc) ==
  /\ up
  /\ isRunning(a)
  /\ exc => ~isWindows
  /\ LET h == runningProcesses[a].process
         chk == StopAppCheck(a)
     IN IF chk # "proceed"
          THEN UNCHANGED <<statsMonitoringTimers, stopCalls>>
          ELSE /\ statsMonitoringTimers' = statsMonitoringTimers \ {a}
               /\ IF exc
                    THEN UNCHANGED stopCalls
                    ELSE /\ Cardinality(UsedSerials(h)) < MaxOverlap
                         /\ stopCalls' = stopCalls \cup {[app |-> a, h |-> h, n |-> FreeSerial(h)]}
  /\ UNCHANGED <<up, isWindows, tailVars, pureVars, awaitVars, nextId, osAlive, handles, emitted, runningProcesses,
                 stoppingProcesses, logPollTimers, watchTimers, killTimers, killCallbacks,
                 runCalls, apps, persisted, saveAppsTimer, notified, lastRecovery>>

\* runner.ts stopApp: what the call returns once the delivery of the graceful
\* signal has completed; err: the completion callback of kill got an error
StopAppReturn(err) == "success"

\* runner.ts stopApp resumed.  Windows: the flush wait is over and taskkill has
\* ended the tree, unless it reports an error (err).  Elsewhere: SIGTERM went
\* to the tree of the pid the call read before it suspended, or its delivery
\* reported an error, and the fallback timeout is armed and recorded.
StopAppResume(c, err) ==
  /\ up
  /\ c \in stopCalls
  /\ stopCalls' = stopCalls \ {c}
  /\ IF isWindows
       THEN /\ osAlive' = IF err THEN osAlive ELSE osAlive \ {handles[c.h].pid}
            /\ UNCHANGED <<killTimers, stoppingProcesses>>
       ELSE /\ killTimers' = killTimers \cup {c}
            /\ stoppingProcesses' = Put(stoppingProcesses, c.app, c)
            /\ UNCHANGED osAlive
  /\ UNCHANGED <<up, isWindows, tailVars, pureVars, awaitVars, nextId, handles, emitted, runningProcesses,
                 statsMonitoringTimers, logPollTimers, watchTimers, killCallbacks,
                 runCalls, apps, persisted, saveAppsTimer, notified, lastRecovery>>

\* runner.ts stopApp, the condition of the fallback timeout's callback
ForceKillMutant(a, pid) == a \notin DOMAIN runningProcesses /\ pid # NoPid
ForceKill(a, pid) == a \in DOMAIN runningProcesses /\ pid # NoPid

\* runner.ts stopApp, the fallback timeout t fires
KillTimeout(t) ==
  /\ up
  /\ t \in killTimers
  /\ killTimers' = killTimers \ {t}
  /\ IF ForceKill(t.app, handles[t.h].pid)
       THEN \* SIGKILL goes to the tree of the pid read by the stopApp call
            /\ killCallbacks' = killCallbacks \cup {[app |-> t.app, pid |-> handles[t.h].pid]}
            /\ UNCHANGED stoppingProcesses
       ELSE /\ stoppingProcesses' = Del(stoppingProcesses, t.app)
            /\ UNCHANGED killCallbacks
  /\ UNCHANGED <<up, isWindows, tailVars, pureVars, awaitVars, nextId, osAlive, handles, emitted, runningProcesses,
                 statsMonitoringTimers, logPollTimers, watchTimers, stopCalls, runCalls,
                 apps, persisted, saveAppsTimer, notified, lastRecovery>>

\* runner.ts stopApp, the completion callback of the SIGKILL delivery
SigkillCallback(k) ==
  /\ up
  /\ k \in killCallbacks
  /\ killCallbacks' = killCallbacks \ {k}
  /\ osAlive' = osAlive \ {k.pid}
  /\ stoppingProcesses' = Del(stoppingProcesses, k.app)
  /\ UNCHANGED <<up, isWindows, tailVars, pureVars, awaitVars, nextId, handles, emitted, runningProcesses,
                 statsMonitoringTimers, logPollTimers, watchTimers, killTimers, stopCalls,
                 runCalls, apps, persisted, saveAppsTimer, notified, lastRecovery>>

\* ---------------------------------------------------------------- port events and saving
\* runner.ts startLogPolling, a tick of the interval of handle h that reads a
\* line in which detectPortFromLog finds port p; index.ts handlePortDetected
LogPollTick(h, p) ==
  /\ up
  /\ h \in logPollTimers
  /\ handles[h].app \in DOMAIN apps
  /\ apps' = [apps EXCEPT ![handles[h].app].port = p]
  /\ saveAppsTimer' = TRUE
  /\ UNCHANGED <<up, isWindows, tailVars, pureVars, awaitVars, nextId, osAlive, handles, emitted, runningProcesses,
                 stoppingProcesses, statsMonitoringTimers, logPollTimers, watchTimers,
                 killTimers, killCallbacks, stopCalls, runCalls, persisted,
                 notified, lastRecovery>>

\* index.ts debouncedSaveApps, the timeout fires
SaveAppsDebounced ==
  /\ up
  /\ saveAppsTimer
  /\ persisted' = saveApps(apps)
  /\ saveAppsTimer' = FALSE
  /\ UNCHANGED <<up, isWindows, tailVars, pureVars, awaitVars, nextId, osAlive, handles, emitted, runningProcesses,
                 stoppingProcesses, statsMonitoringTimers, logPollTimers, watchTimers,
                 killTimers, killCallbacks, stopCalls, runCalls, apps,
                 notified, lastRecovery>>

\* index.ts update-app handler with a run command: an app in error becomes installed
UpdateApp(a) ==
  /\ up
  /\ apps' = [apps EXCEPT ![a].status = IF @ = "error" THEN "installed" ELSE @]
  /\ persisted' = saveApps(apps')
  /\ UNCHANGED <<up, isWindows, tailVars, pureVars, awaitVars, nextId, osAlive, handles, emitted, runningProcesses,
                 stoppingProcesses, statsMonitoringTimers, logPollTimers, watchTimers,
                 killTimers, killCallbacks, stopCalls, runCalls, saveAppsTimer,
                 notified, lastRecovery>>

\* ---------------------------------------------------------------- the OS
\* a supervised process ends, at any time, whether or not the supervisor runs
ProcessExit(p) ==
  /\ p \in osAlive
  /\ osAlive' = osAlive \ {p}
  /\ UNCHANGED <<up, isWindows, tailVars, pureVars, awaitVars, nextId, handles, emitted, runningProcesses,
                 stoppingProcesses, statsMonitoringTimers, logPollTimers, watchTimers,
                 killTimers, killCallbacks, stopCalls, runCalls, apps, persisted,
                 saveAppsTimer, notified, lastRecovery>>

\* ---------------------------------------------------------------- supervisor exit and startup
\* a supervisor exit that ends the children it tracks
QuitMutant ==
  /\ up
  /\ up' = FALSE
  /\ handles' = EmptyMap
  /\ emitted' = EmptyMap
  /\ runningProcesses' = EmptyMap
  /\ stoppingProcesses' = EmptyMap
  /\ statsMonitoringTimers' = {}
  /\ logPollTimers' = {}
  /\ watchTimers' = {}
  /\ killTimers' = {}
  /\ killCallbacks' = {}
  /\ stopCalls' = {}
  /\ runCalls' = <<>>
  /\ apps' = EmptyMap
  /\ saveAppsTimer' = FALSE
  /\ notified' = EmptyMap
  /\ lastRecovery' = EmptyMap
  /\ osAlive' = osAlive \ {handles[h].pid : h \in DOMAIN handles}
  /\ UNCHANGED <<isWindows, tailVars, pureVars, awaitVars, nextId, persisted>>

\* index.ts window-all-closed: the supervisor quits; children are detached
\* and get no signal; everything held in memory is gone
Quit ==
  /\ up
  /\ up' = FALSE
  /\ handles' = EmptyMap
  /\ emitted' = EmptyMap
  /\ runningProcesses' = EmptyMap
  /\ stoppingProcesses' = EmptyMap
  /\ statsMonitoringTimers' = {}
  /\ logPollTimers' = {}
  /\ watchTimers' = {}
  /\ killTimers' = {}
  /\ killCallbacks' = {}
  /\ stopCalls' = {}
  /\ runCalls' = <<>>
  /\ apps' = EmptyMap
  /\ saveAppsTimer' = FALSE
  /\ notified' = EmptyMap
  /\ lastRecovery' = EmptyMap
  /\ UNCHANGED <<isWindows, tailVars, pureVars, awaitVars, nextId, osAlive, persisted>>

\* index.ts recovery loop: the record is recovered when it has a pid and the pid is alive
RecoverableMutant(rec) == rec.pid # NoPid /\ isProcessAlive(rec.pid) /\ rec.port # NoPort
Recoverable(rec) == rec.pid # NoPid /\ isProcessAlive(rec.pid)

\* index.ts recovery loop: the app record of a recovered app (loadApps gives
\* status installed and the persisted pid and port)
RecoveredApp(rec) == [status |-> "running", pid |-> rec.pid, port |-> rec.port]

\* index.ts recovery loop: the app record of an app that is not recovered
ClearedAppMutant(rec) == [status |-> "installed", pid |-> NoPid, port |-> rec.port]
ClearedApp(rec) == [status |-> "installed", pid |-> NoPid, port |-> NoPort]

\* handle id given to the adopted handle of app a by the recovery loop
RecoveredIds(R) == [a \in R |-> nextId + Cardinality({b \in R : Idx(b) < Idx(a)})]

\* index.ts app.whenReady: loadApps, the recovery loop (recoverProcess for
\* every recoverable record), saveApps
Startup ==
  LET R == {a \in DOMAIN persisted : Recoverable(persisted[a])}
      id == RecoveredIds(R)
      ids == {id[a] : a \in R}
  IN
  /\ ~up
  /\ nextId + Cardinality(R) - 1 <= MaxHandles
  /\ up' = TRUE
  /\ nextId' = nextId + Cardinality(R)
  /\ handles' = [h \in ids |->
                   LET a == CHOOSE b \in R : id[b] = h
                   IN [app |-> a, kind |-> "adopted", pid |-> persisted[a].pid]]
  /\ emitted' = [h \in ids |-> {}]
  /\ notified' = [h \in ids |-> 0]
  /\ lastRecovery' = [a \in DOMAIN persisted |->
                        IF a \in R THEN "adopted"
                        ELSE IF persisted[a].pid # NoPid THEN "stale" ELSE "none"]
  \* recoverProcess: setupProcessHandlers with the log file path
  /\ runningProcesses' = [a \in R |-> [process |-> id[a], logPollInterval |-> TRUE]]
  /\ logPollTimers' = ids
  /\ statsMonitoringTimers' = R
  /\ watchTimers' = ids
  /\ apps' = [a \in DOMAIN persisted |-> IF a \in R THEN RecoveredApp(persisted[a])
                                        ELSE ClearedApp(persisted[a])]
  /\ persisted' = saveApps(apps')
  /\ UNCHANGED <<isWindows, tailVars, pureVars, awaitVars, osAlive, stoppingProcesses, killTimers, killCallbacks,
                 stopCalls, runCalls, saveAppsTimer>>

\* ---------------------------------------------------------------- the log tailer
\* String.prototype.split('\n') on the characters of s
RECURSIVE Split(_)
Split(s) ==
  IF s = <<>> THEN << <<>> >>
  ELSE LET r == Split(Tail(s))
       IN IF Head(s) = LF THEN << <<>> >> \o r
          ELSE << <<Head(s)>> \o Head(r) >> \o Tail(r)

\* the lines for which line.trim() is not empty
NonBlank(ls) == SelectSeq(ls, LAMBDA l : l # <<>>)

\* runner.ts recoverProcess: the lines of the existing log passed to onLog
Replay(file) == NonBlank(Split(file))

\* runner.ts startLogPolling, the 'data' handler: the lines passed to onLog
\* for the characters buf a stream delivers; lines.pop() keeps the last piece
\* in a buffer that lives only as long as the stream
DataLines(buf) ==
  LET lines == Split(buf) IN NonBlank(SubSeq(lines, 1, Len(lines) - 1))

\* fs.createReadStream(path, {start, end}): both ends are inclusive, and the
\* file is read as it is when the stream reads
StreamData(st) == SubSeq(logFile, st.start + 1, Min(st.size + 1, Len(logFile)))

\* the log files a tailer may find when it starts (the file is opened for appending)
RECURSIVE SeqsUpTo(_)
SeqsUpTo(n) ==
  IF n = 0 THEN {<<>>}
  ELSE SeqsUpTo(n - 1) \cup {Append(s, c) : s \in {t \in SeqsUpTo(n - 1) : Len(t) = n - 1}, c \in Chars}

\* runner.ts setupProcessHandlers has just called startLogPolling, for a
\* process launched by runApp or adopted by recoverProcess, which has passed
\* the existing log to onLog first
TailInit ==
  /\ InitWith({"a1"})
  /\ logFile \in SeqsUpTo(MaxInitial)
  /\ recovered \in BOOLEAN
  /\ atAdoption = logFile
  /\ forwarded = IF recovered THEN Replay(logFile) ELSE <<>>
  /\ lastPosition = 0
  /\ streams = <<>>
  /\ shrink = "no"
  /\ PureIdle

\* the process writes character c to its log
AppendLog(c) ==
  /\ Len(logFile) < MaxLog
  /\ logFile' = Append(logFile, c)
  /\ UNCHANGED <<lastPosition, streams, forwarded, recovered, atAdoption, shrink>>
  /\ UNCHANGED <<supervisorVars, pureVars, awaitVars>>

\* the log file is emptied, or removed and created again (once)
TruncateLog ==
  /\ shrink = "no"
  /\ logFile # <<>>
  /\ logFile' = <<>>
  /\ shrink' = "shrunk"
  /\ UNCHANGED <<lastPosition, streams, forwarded, recovered, atAdoption>>
  /\ UNCHANGED <<supervisorVars, pureVars, awaitVars>>

\* runner.ts startLogPolling, the interval callback: a stream is opened when
\* the file is larger than lastPosition, nothing is done otherwise
PollTick ==
  /\ IF Len(logFile) > lastPosition
       THEN /\ Len(streams) < MaxStreams
            /\ streams' = Append(streams, [start |-> lastPosition, size |-> Len(logFile)])
       ELSE UNCHANGED streams
  /\ shrink' = IF shrink = "shrunk" THEN "polled" ELSE shrink
  /\ UNCHANGED <<logFile, lastPosition, forwarded, recovered, atAdoption>>
  /\ UNCHANGED <<supervisorVars, pureVars, awaitVars>>

\* runner.ts startLogPolling, the 'data' and 'end' handlers of the i-th open stream
StreamEnd(i) ==
  /\ i \in 1..Len(streams)
  /\ forwarded' = forwarded \o DataLines(StreamData(streams[i]))
  /\ lastPosition' = streams[i].size
  /\ streams' = SubSeq(streams, 1, i - 1) \o SubSeq(streams, i + 1, Len(streams))
  /\ UNCHANGED <<logFile, recovered, atAdoption, shrink>>
  /\ UNCHANGED <<supervisorVars, pureVars, awaitVars>>

TailNext ==
  \/ \E c \in Chars : AppendLog(c)
  \/ TruncateLog
  \/ PollTick
  \/ \E i \in 1..Len(streams) : StreamEnd(i)

TailSpec == TailInit /\ [][TailNext]_vars

\* ---------------------------------------------------------------- calls of functions that read no state
\* ages (Date.now() - startTime, in ms) at which an entry is sampled
SampleAges == {0, 4999, 5000, 5001}

\* getProcessStats is about to be called for a registry entry just made,
\* whose root pid is alive or was never there
HealthInit ==
  /\ fn = "health"
  /\ arg \in [alive : BOOLEAN, age : {0}]
  /\ out = <<>>

\* process-monitor.ts getProcessStats for an entry of the given age; alive is
\* what the liveness probe finds: a pid that is gone stays gone
GetProcessStats(alive, age) ==
  /\ fn = "health"
  /\ age >= arg.age
  /\ alive => arg.alive
  /\ arg' = [alive |-> alive, age |-> age]
  /\ out' = <<HealthStatus(alive, age)>>
  /\ UNCHANGED <<fn, supervisorVars, tailVars, awaitVars>>

\* ---------------------------------------------------------------- specification
Cmds == {"none", "empty", "ok"}
SpawnOutcomes == {"ok", "enoent", "throw"}
TickOrders == {"tick", "microtask"}
HealthAges == {5000, 5001}

Next ==
  \/ \E a \in DOMAIN apps : RunAppRejected(a)
  \/ \E a \in DOMAIN apps, cmd \in Cmds, io \in SpawnOutcomes, order \in TickOrders :
       RunAppDirect(a, cmd, io, order)
  \/ \E a \in DOMAIN apps : RunAppAwait(a)
  \/ \E cmd \in Cmds, io \in SpawnOutcomes : RunAppResume(cmd, io)
  \/ \E a \in DOMAIN apps : StopAppRejected(a)
  \/ \E a \in DOMAIN apps, exc \in BOOLEAN : StopAppCall(a, exc)
  \/ \E c \in stopCalls, err \in BOOLEAN : StopAppResume(c, err)
  \/ \E t \in killTimers : KillTimeout(t)
  \/ \E k \in killCallbacks : SigkillCallback(k)
  \/ \E h \in DOMAIN handles : CloseEvent(h)
  \/ \E h \in watchTimers : WatchTick(h)
  \/ \E a \in DOMAIN apps, age \in HealthAges : HealthTick(a, age)
  \/ \E h \in logPollTimers, p \in Ports : LogPollTick(h, p)
  \/ SaveAppsDebounced
  \/ \E a \in DOMAIN apps : UpdateApp(a)
  \/ \E p \in osAlive : ProcessExit(p)
  \/ Quit
  \/ Startup

Spec == Init /\ [][Next]_vars

\* ---------------------------------------------------------------- properties
\* the handle h is the one the registry holds for some app
Registered(h) == \E a \in DOMAIN runningProcesses : runningProcesses[a].process = h

\* the registry and every timer of the runner
registryAndTimers == <<runningProcesses, handles, logPollTimers, statsMonitoringTimers,
                       watchTimers, killTimers, stoppingProcesses>>

\* a step in which a run-app handler calls runApp for app a with inputs cmd, io
RunAppStep(a, cmd, io) ==
  \/ \E order \in TickOrders : RunAppDirect(a, cmd, io, order)
  \/ runCalls # <<>> /\ Head(runCalls).id = a /\ RunAppResume(cmd, io)

\* C1: the registry holds at most one entry per app: no step replaces an entry
\* that is present by another handle, and no runApp call made while the app
\* has an entry returns anything but the already-running failure or changes
\* the registry or a timer.
C1_SecondLaunchRejected ==
  [][ \A a \in DOMAIN runningProcesses :
        /\ a \in DOMAIN runningProcesses'
             => runningProcesses'[a].process = runningProcesses[a].process
        /\ \A cmd \in Cmds, io \in SpawnOutcomes :
             RunAppResult(a, cmd, io) # "already_running" => ~RunAppStep(a, cmd, io)
        /\ ~UNCHANGED registryAndTimers
             => \A cmd \in Cmds, io \in SpawnOutcomes : ~RunAppStep(a, cmd, io)
    ]_vars

\* a launch was refused (the caller recorded the failure) while the entry of
\* the earlier launch is still registered
C1_Witness ==
  \E a \in DOMAIN runningProcesses :
    /\ apps[a].status = "error"
    /\ handles[runningProcesses[a].process].kind = "spawned"

\* the entry of app a is gone and no timer of handle h is left
ResourcesReleased(a, h) ==
  /\ a \notin DOMAIN runningProcesses
  /\ h \notin logPollTimers
  /\ a \notin statsMonitoringTimers
  /\ h \notin watchTimers
  /\ \A t \in killTimers : t.h # h

\* the health tick of app a finds the registered process dead
HealthFindsDead(a) ==
  /\ a \in statsMonitoringTimers
  /\ a \in DOMAIN runningProcesses
  /\ handles[runningProcesses[a].process].pid # NoPid
  /\ ~isProcessAlive(handles[runningProcesses[a].process].pid)

\* C2: after any termination path (exit event, launch-error event, watch of an
\* adopted process, health-poll cleanup) the entry is removed and the log-poll,
\* health-poll, kill-fallback and watch timers of the instance are cancelled.
C2_TerminationReleasesEverything ==
  [][ /\ \A h \in DOMAIN handles :
           LET a == handles[h].app
           IN ((CloseEvent(h) \/ WatchTick(h)) /\ Registered(h))
                => ResourcesReleased(a, h)'
      /\ \A a \in DOMAIN apps :
           LET h == nextId
           IN (a \notin DOMAIN runningProcesses /\ RunAppStep(a, "ok", "enoent"))
                => ResourcesReleased(a, h)'
      /\ \A a \in DOMAIN runningProcesses : \A age \in HealthAges :
           LET h == runningProcesses[a].process
           IN (HealthFindsDead(a) /\ HealthTick(a, age)) => ResourcesReleased(a, h)'
    ]_vars

\* C3: onProcessStopped is invoked exactly once per process instance: never
\* twice, and at least once when the instance's close event has been handled.
C3_StoppedNotifiedOnce ==
  \A h \in DOMAIN notified :
    /\ notified[h] <= 1
    /\ ("close" \in emitted[h] => notified[h] >= 1)

C5_RecoveryClearsDeadPid ==
  [][ Startup =>
        \A a \in DOMAIN persisted :
          (persisted[a].pid # NoPid /\ ~isProcessAlive(persisted[a].pid))
            => /\ apps'[a].status = "installed"
               /\ a \notin DOMAIN runningProcesses'
               /\ apps'[a].pid = NoPid
               /\ apps'[a].port = NoPort
               /\ persisted'[a] = [pid |-> NoPid, port |-> NoPort]
    ]_vars

\* recovery found a record with a dead pid and left the app stopped
C5_Witness ==
  \E a \in DOMAIN lastRecovery :
    /\ lastRecovery[a] = "stale"
    /\ apps[a].status = "installed"
    /\ apps[a].pid = NoPid
    /\ a \notin DOMAIN runningProcesses

\* C6: once the termination of an instance has been observed after terminate
\* was called, no kill-fallback timer of that instance stays pending and no
\* SIGKILL is sent for it.
C6_ObservedExitCancelsFallback ==
  [][ /\ \A t \in killTimers' : notified'[t.h] = 0
      /\ \A t \in killTimers :
           (KillTimeout(t) /\ ForceKill(t.app, handles[t.h].pid)) => notified[t.h] = 0
    ]_vars

\* C7: when the kill-fallback timer fires while the entry of its instance is
\* registered, SIGKILL is sent to the pid; a pending timer goes away without
\* firing only in a step that leaves the entry unregistered.
C7_FallbackSendsSigkill ==
  [][ \A t \in killTimers :
        /\ (KillTimeout(t) /\ Registered(t.h))
             => [app |-> t.app, pid |-> handles[t.h].pid] \in killCallbacks'
        /\ (t \notin killTimers' /\ ~KillTimeout(t)) => ~Registered(t.h)'
    ]_vars

\* a SIGKILL is in flight to the pid of the registered instance
C7_Witness ==
  \E k \in killCallbacks :
    /\ k.app \in DOMAIN runningProcesses
    /\ handles[runningProcesses[k.app].process].pid = k.pid
    /\ k.app \notin DOMAIN stoppingProcesses \/ stoppingProcesses[k.app] \notin killTimers

\* C8: a launch whose spawn fails returns failure: no runApp call that reaches
\* the spawn and finds it failing (by exception or by the error report of the
\* child object) returns success.
C8_SpawnFailureFailsLaunch ==
  [][ \A a \in DOMAIN apps : \A io \in SpawnOutcomes \ {"ok"} :
        RunAppResult(a, "ok", io) = "success" => ~RunAppStep(a, "ok", io)
    ]_vars

\* C9: a launch that fails (already running, no command, empty command,
\* exception while opening the log or spawning) leaves the registry and all
\* timers unchanged: no runApp call that returns a failure changes them.
C9_FailedLaunchChangesNothing ==
  [][ ~UNCHANGED registryAndTimers
        => \A a \in DOMAIN apps : \A cmd \in Cmds, io \in SpawnOutcomes :
             RunAppResult(a, cmd, io) # "success" => ~RunAppStep(a, cmd, io)
    ]_vars

\* a launch failed for an app that has no entry
C9_Witness ==
  \E a \in DOMAIN apps :
    /\ apps[a].status = "error"
    /\ a \notin DOMAIN runningProcesses

\* C10: terminate for an app without entry fails with not-running, and a
\* terminate that fails (not running, no pid, already stopping, stop failed)
\* leaves the entry, the log-poll and health-poll timers and the fallback
\* table unchanged.
C10_FailedTerminateChangesNothing ==
  [][ \A a \in DOMAIN apps : \A exc \in BOOLEAN :
        /\ ((StopAppRejected(a) \/ StopAppCall(a, exc)) /\ a \notin DOMAIN runningProcesses)
             => StopAppResult(a, exc) = "not_running"
        /\ ((StopAppRejected(a) \/ StopAppCall(a, exc))
              /\ StopAppResult(a, exc) \in {"not_running", "no_pid", "already_stopping", "stop_failed"})
             => UNCHANGED <<runningProcesses, logPollTimers, statsMonitoringTimers,
                            stoppingProcesses, killTimers>>
    ]_vars

\* the app record of a shows the app stopped, in memory and in apps.json
StoppedAndSaved(a) ==
  /\ apps[a].status = "installed"
  /\ apps[a].pid = NoPid
  /\ apps[a].port = NoPort
  /\ persisted[a] = [pid |-> NoPid, port |-> NoPort]

\* C11: when a handler confirms a process stopped (close event, watch tick of
\* an adopted process, health tick that finds the pid dead), it leaves the
\* app installed with pid and port both cleared, in memory and in apps.json.
C11_StopClearsPidAndPortTogether ==
  [][ /\ \A h \in DOMAIN handles :
           (CloseEvent(h) \/ WatchTick(h)) => StoppedAndSaved(handles[h].app)'
      /\ \A a \in DOMAIN runningProcesses :
           HealthFindsDead(a)
             => \A age \in HealthAges : HealthTick(a, age) => StoppedAndSaved(a)'
    ]_vars

\* a process that had a pid has been reported stopped and its record is cleared
C11_Witness ==
  \E h \in DOMAIN handles :
    /\ handles[h].pid # NoPid
    /\ notified[h] >= 1
    /\ StoppedAndSaved(handles[h].app)

\* C14: a port detection whose value equals the app's current port is no new
\* event: it changes no app record and schedules no write of apps.json.
C14_PortEventOncePerValue ==
  [][ \A h \in logPollTimers :
        handles[h].app \in DOMAIN apps
          => \A p \in Ports :
               apps[handles[h].app].port = p /\ LogPollTick(h, p)
                 => UNCHANGED <<apps, saveAppsTimer>>
    ]_vars

\* C16: an app can be launched again after it was stopped.  A step that
\* delivers the stop notification of a handle (its close event, or the watch
\* tick of an adopted handle) leaves the app without registry entry and with
\* status installed, so that the next run-app request is not refused; and a
\* launch with a valid command and a spawn that succeeds, made while the app
\* has no entry, registers a handle that did not exist before, with a pid
\* that no earlier handle had, and records the app running with that pid.
C16_RelaunchAfterTerminate ==
  [][ /\ \A h \in DOMAIN handles :
           (CloseEvent(h) \/ WatchTick(h))
             => /\ handles[h].app \notin DOMAIN runningProcesses'
                /\ apps'[handles[h].app].status = "installed"
      /\ \A a \in DOMAIN apps :
           (a \notin DOMAIN runningProcesses /\ RunAppStep(a, "ok", "ok"))
             => /\ RunAppResult(a, "ok", "ok") = "success"
                /\ nextId \notin DOMAIN handles
                /\ runningProcesses'[a].process = nextId
                /\ handles'[nextId].pid \notin {handles[g].pid : g \in DOMAIN handles} \cup {NoPid}
                /\ apps'[a].status = "running"
                /\ apps'[a].pid = handles'[nextId].pid
    ]_vars

\* the app was launched, its process ended and the stop was notified, and the
\* app was launched again: the second handle is registered with another pid
C16_Witness ==
  \E g, h \in DOMAIN handles :
    /\ g # h
    /\ handles[g].app = handles[h].app
    /\ handles[g].kind = "spawned" /\ handles[g].pid # NoPid
    /\ ~isProcessAlive(handles[g].pid)
    /\ "close" \in emitted[g] /\ notified[g] >= 1
    /\ handles[h].kind = "spawned"
    /\ Registered(h)
    /\ handles[h].pid # handles[g].pid
    /\ isProcessAlive(handles[h].pid)
    /\ apps[handles[h].app].status = "running"
    /\ apps[handles[h].app].pid = handles[h].pid

C19_UndeliveredSignalFailsTerminate ==
  [][ \A c \in stopCalls : StopAppResume(c, TRUE) => StopAppReturn(TRUE) # "success" ]_vars

\* C20: between two handlers of the running supervisor, the pid and the port
\* that apps.json holds for an app are those of its record in memory.
C20_PersistedMatchesMemory ==
  up => \A a \in DOMAIN apps :
          persisted[a] = [pid |-> apps[a].pid, port |-> apps[a].port]

\* the newline-terminated, non-blank lines of a log file
LinesOf(file) == NonBlank(SubSeq(Split(file), 1, Len(Split(file)) - 1))

IsPrefix(s, t) == Len(s) <= Len(t) /\ SubSeq(t, 1, Len(s)) = s

\* C12: for a launched process whose log file never shrinks, the lines
\* forwarded so far are the first complete lines of the file, each once, whole
\* and in order; and once the tailer has read up to the end of the file and no
\* stream is open, every complete line of the file has been forwarded.
C12_LinesForwardedOnceAndIntact ==
  (~recovered /\ shrink = "no")
    => /\ IsPrefix(forwarded, LinesOf(logFile))
       /\ (streams = <<>> /\ lastPosition = Len(logFile))
            => forwarded = LinesOf(logFile)

\* the offset just after the last line terminator of a log file
CompleteLen(file) ==
  IF \E i \in 1..Len(file) : file[i] = LF
    THEN CHOOSE i \in 1..Len(file) :
           file[i] = LF /\ \A j \in (i + 1)..Len(file) : file[j] # LF
    ELSE 0

\* C13: for an adopted process whose log file never shrinks, what has been
\* forwarded is the log as it was at adoption, once, followed only by lines
\* that were completed after the adoption, each once and in order.
C13_AdoptedLogForwardedOnce ==
  (recovered /\ shrink = "no")
    => LET n == Len(Replay(atAdoption))
           later == SubSeq(logFile, CompleteLen(atAdoption) + 1, Len(logFile))
       IN /\ Len(forwarded) >= n
          /\ SubSeq(forwarded, 1, n) = Replay(atAdoption)
          /\ IsPrefix(SubSeq(forwarded, n + 1, Len(forwarded)), LinesOf(later))

\* C15: a poll that finds the log file shorter than the remembered offset
\* resets the offset: after it the offset is not beyond the end of the file.
C15_ShrunkFileResetsOffset ==
  [][ (PollTick /\ Len(logFile) < lastPosition) => lastPosition' <= Len(logFile') ]_vars

\* ---------------------------------------------------------------- two apps side by side
\* Both apps are installed; the requests and events named by the frame
\* property (launch, terminate, termination observed, port detected) and the
\* ends of processes, without supervisor exit and restart.
FrameInit == InitWith({"a1", "a2"}) /\ TailIdle /\ PureIdle

FrameNext ==
  \/ \E a \in DOMAIN apps, io \in SpawnOutcomes, order \in TickOrders :
       RunAppDirect(a, "ok", io, order)
  \/ \E a \in DOMAIN apps, exc \in BOOLEAN : StopAppCall(a, exc)
  \/ \E c \in stopCalls, err \in BOOLEAN : StopAppResume(c, err)
  \/ \E t \in killTimers : KillTimeout(t)
  \/ \E k \in killCallbacks : SigkillCallback(k)
  \/ \E h \in DOMAIN handles : CloseEvent(h)
  \/ \E a \in DOMAIN apps, age \in HealthAges : HealthTick(a, age)
  \/ \E h \in logPollTimers, p \in Ports : LogPollTick(h, p)
  \/ SaveAppsDebounced
  \/ \E p \in osAlive : ProcessExit(p)

FrameSpec == FrameInit /\ [][FrameNext]_vars

\* what the supervisor holds for app b: registry entry, timers, stopping
\* record, app record, and which of its children are alive
OwnState(b) ==
  << {runningProcesses[x] : x \in DOMAIN runningProcesses \cap {b}},
     b \in statsMonitoringTimers,
     {h \in logPollTimers \cup watchTimers : handles[h].app = b},
     {t \in killTimers : t.app = b},
     {stoppingProcesses[x] : x \in DOMAIN stoppingProcesses \cap {b}},
     apps[b],
     {h \in DOMAIN handles : handles[h].app = b /\ isProcessAlive(handles[h].pid)} >>

\* a launch, a terminate (with its fallback), an observed termination or a
\* port detection for app a
StepFor(a) ==
  \/ \E io \in SpawnOutcomes, order \in TickOrders : RunAppDirect(a, "ok", io, order)
  \/ \E exc \in BOOLEAN : StopAppCall(a, exc)
  \/ \E c \in stopCalls, err \in BOOLEAN : c.app = a /\ StopAppResume(c, err)
  \/ \E t \in killTimers : t.app = a /\ KillTimeout(t)
  \/ \E k \in killCallbacks : k.app = a /\ SigkillCallback(k)
  \/ \E h \in DOMAIN handles : handles[h].app = a /\ CloseEvent(h)
  \/ \E age \in HealthAges : HealthTick(a, age)
  \/ \E h \in logPollTimers, p \in Ports : handles[h].app = a /\ LogPollTick(h, p)

\* C21: a launch, terminate, observed termination or port detection for one
\* app leaves every other app's registry entry, timers, stopping record, pid,
\* port, status and child as they were.
C21_OtherAppsUntouched ==
  [][ \A b \in DOMAIN apps :
        OwnState(b)' # OwnState(b)
          => \A a \in DOMAIN apps \ {b} : ~StepFor(a)
    ]_vars

\* two apps ran side by side; one has been stopped and reported, the other is
\* still registered, shown running, and its child is alive
C21_Witness ==
  \E g, h \in DOMAIN handles :
    /\ handles[g].app # handles[h].app
    /\ handles[g].pid # NoPid /\ notified[g] >= 1
    /\ handles[g].app \notin DOMAIN runningProcesses
    /\ apps[handles[g].app].status = "installed"
    /\ Registered(h)
    /\ isProcessAlive(handles[h].pid)
    /\ apps[handles[h].app].status = "running"
    /\ apps[handles[h].app].pid = handles[h].pid
    /\ apps[handles[h].app].port # NoPort

\* ---------------------------------------------------------------- the port sniffer
\* A log line is the sequence of its characters.
Digits == <<"0", "1", "2", "3", "4", "5", "6", "7", "8", "9">>
UpperCase == <<"A", "B", "C", "D", "E", "F", "G", "H", "I", "J", "K", "L", "M", "N", "O", "P", "Q", "R", "S", "T", "U", "V", "W", "X", "Y", "Z">>
LowerCase == <<"a", "b", "c", "d", "e", "f", "g", "h", "i", "j", "k", "l", "m", "n", "o", "p", "q", "r", "s", "t", "u", "v", "w", "x", "y", "z">>

IsDigit(c) == \E d \in 1..10 : Digits[d] = c
\* \s: of the white space characters the lines here hold only the blank
IsSpace(c) == c = " "
MinOf(S) == CHOOSE x \in S : \A y \in S : x <= y

\* the i flag of every pattern: letters are compared without their case
ToLower(s) ==
  [i \in 1..Len(s) |->
     IF \E k \in 1..26 : UpperCase[k] = s[i]
       THEN LowerCase[CHOOSE k \in 1..26 : UpperCase[k] = s[i]]
       ELSE s[i]]

\* parseInt(digits, 10)
RECURSIVE parseInt(_)
parseInt(ds) ==
  IF ds = <<>> THEN 0
  ELSE 10 * parseInt(SubSeq(ds, 1, Len(ds) - 1))
         + (CHOOSE d \in 0..9 : Digits[d + 1] = ds[Len(ds)])

\* PROCESS.PORT_MIN, PROCESS.PORT_MAX
PORT_MIN == 1
PORT_MAX == 65535

\* word w stands in line l at position i
MatchAt(l, i, w) ==
  /\ i >= 1
  /\ i + Len(w) - 1 <= Len(l)
  /\ SubSeq(l, i, i + Len(w) - 1) = w

\* the position just after the first occurrence, at or after position from,
\* of one of the words ws; 0 if there is none or from is 0 (an earlier part
\* of the pattern did not match)
AfterFirst(l, ws, from) ==
  LET occ == {x \in (from..Len(l)) \X (1..Len(ws)) : MatchAt(l, x[1], ws[x[2]])}
  IN IF from = 0 \/ occ = {} THEN 0
     ELSE LET s == MinOf({x[1] : x \in occ})
              k == CHOOSE k \in 1..Len(ws) : <<s, k>> \in occ
          IN s + Len(ws[k])

\* (\d+) at position i: the longest run of digits that starts there
DigitRun(l, i) ==
  LET stop == MinOf({j \in i..(Len(l) + 1) : j = Len(l) + 1 \/ ~IsDigit(l[j])})
  IN SubSeq(l, i, stop - 1)

\* .*?:(\d+) from position from on: the digits after the first colon that is
\* followed by a digit; <<>> if there is none or from is 0
ColonPort(l, from) ==
  LET C == {j \in from..(Len(l) - 1) : l[j] = ":" /\ IsDigit(l[j + 1])}
  IN IF from = 0 \/ C = {} THEN <<>> ELSE DigitRun(l, MinOf(C) + 1)

\* the patterns for which detectPortFromLog returns null at once
errorPatterns ==
  <<<<"e", "r", "r", "o", "r">>,
     <<"f", "a", "i", "l", "e", "d">>,
     <<"r", "e", "f", "u", "s", "e", "d">>,
     <<"t", "i", "m", "e", "o", "u", "t">>,
     <<"c", "a", "n", "n", "o", "t">>,
     <<"u", "n", "a", "b", "l", "e">>,
     <<"a", "l", "r", "e", "a", "d", "y", " ", "i", "n", " ", "u", "s", "e">>,
     <<"b", "i", "n", "d">>,
     <<"c", "o", "n", "n", "e", "c", "t", "i", "n", "g", " ", "t", "o">>,
     <<"c", "o", "n", "n", "e", "c", "t", " ", "t", "o">>,
     <<"c", "o", "n", "n", "e", "c", "t", "i", "o", "n", " ", "t", "o">>>>

\* /\*\s+Running on.*?:(\d+)/i
FlaskMatch(l) ==
  LET w == <<"r", "u", "n", "n", "i", "n", "g", " ", "o", "n">>
      K == {k \in 1..Len(l) :
              /\ MatchAt(l, k, w)
              /\ \E i \in 1..(k - 2) :
                   l[i] = "*" /\ \A j \in (i + 1)..(k - 1) : IsSpace(l[j])}
  IN IF K = {} THEN <<>> ELSE ColonPort(l, MinOf(K) + Len(w))

\* /Local URL:\s*https?:\/\/[^:]+:(\d+)/i tried at position i: the digits, or <<>>
StreamlitAt(l, i) ==
  LET w == <<"l", "o", "c", "a", "l", " ", "u", "r", "l", ":">>
      b == MinOf({j \in (i + Len(w))..(Len(l) + 1) : j = Len(l) + 1 \/ ~IsSpace(l[j])})
      e == IF MatchAt(l, b, <<"h", "t", "t", "p", ":", "/", "/">>) THEN b + 7
           ELSE IF MatchAt(l, b, <<"h", "t", "t", "p", "s", ":", "/", "/">>) THEN b + 8 ELSE 0
      C == {j \in e..Len(l) : l[j] = ":"}
  IN IF ~MatchAt(l, i, w) \/ e = 0 \/ C = {} THEN <<>>
     ELSE LET c == MinOf(C)
          IN IF c > e /\ c < Len(l) /\ IsDigit(l[c + 1]) THEN DigitRun(l, c + 1) ELSE <<>>

StreamlitMatch(l) ==
  LET I == {i \in 1..Len(l) : StreamlitAt(l, i) # <<>>}
  IN IF I = {} THEN <<>> ELSE StreamlitAt(l, MinOf(I))

\* /Uvicorn running on.*?:(\d+)/i
UvicornMatch(l) == ColonPort(l, AfterFirst(l, <<<<"u", "v", "i", "c", "o", "r", "n", " ", "r", "u", "n", "n", "i", "n", "g", " ", "o", "n">>>>, 1))

\* /Starting development server at.*?:(\d+)/i
DjangoMatch(l) == ColonPort(l, AfterFirst(l, <<<<"s", "t", "a", "r", "t", "i", "n", "g", " ", "d", "e", "v", "e", "l", "o", "p", "m", "e", "n", "t", " ", "s", "e", "r", "v", "e", "r", " ", "a", "t">>>>, 1))

\* the captures of the framework patterns, in the order they are tried
frameworkPatterns(l) == <<FlaskMatch(l), StreamlitMatch(l), UvicornMatch(l), DjangoMatch(l)>>

PositiveVerbs ==
  <<<<"l", "i", "s", "t", "e", "n", "i", "n", "g">>,
     <<"r", "u", "n", "n", "i", "n", "g">>,
     <<"s", "t", "a", "r", "t", "e", "d">>,
     <<"s", "t", "a", "r", "t", "i", "n", "g">>,
     <<"s", "e", "r", "v", "i", "n", "g">>,
     <<"a", "v", "a", "i", "l", "a", "b", "l", "e">>>>

\* /(?:listening|running|started|starting|serving|available).*?(?:on|at).*?:(\d+)/i
VerbOnAtMatch(l) ==
  ColonPort(l, AfterFirst(l, <<<<"o", "n">>, <<"a", "t">>>>, AfterFirst(l, PositiveVerbs, 1)))

\* /(?:listening|...|available).*?(?:port|PORT)[\s:]+(\d+)/i
VerbPortMatch(l) ==
  LET w == <<"p", "o", "r", "t">>
      v == AfterFirst(l, PositiveVerbs, 1)
      \* the position after the run of blanks and colons that follows position p
      after(p) == MinOf({j \in p..(Len(l) + 1) :
                           j = Len(l) + 1 \/ ~(IsSpace(l[j]) \/ l[j] = ":")})
      P == {p \in v..Len(l) :
              /\ MatchAt(l, p, w)
              /\ after(p + Len(w)) > p + Len(w)
              /\ after(p + Len(w)) <= Len(l)
              /\ IsDigit(l[after(p + Len(w))])}
  IN IF v = 0 \/ P = {} THEN <<>> ELSE DigitRun(l, after(MinOf(P) + Len(w)))

\* /server.*?(?:listening|running|started|starting).*?:(\d+)/i
ServerVerbMatch(l) ==
  ColonPort(l, AfterFirst(l, SubSeq(PositiveVerbs, 1, 4), AfterFirst(l, <<<<"s", "e", "r", "v", "e", "r">>>>, 1)))

\* the captures of the positive-verb patterns, in the order they are tried
positivePatterns(l) == <<VerbOnAtMatch(l), VerbPortMatch(l), ServerVerbMatch(l)>>

UrlHosts ==
  <<<<"l", "o", "c", "a", "l", "h", "o", "s", "t">>,
     <<"1", "2", "7", ".", "0", ".", "0", ".", "1">>,
     <<"0", ".", "0", ".", "0", ".", "0">>,
     <<"*">>>>

\* /https?:\/\/(?:localhost|127\.0\.0\.1|0\.0\.0\.0|\*):(\d+)/i tried at position i
UrlAt(l, i) ==
  LET e == IF MatchAt(l, i, <<"h", "t", "t", "p", ":", "/", "/">>) THEN i + 7
           ELSE IF MatchAt(l, i, <<"h", "t", "t", "p", "s", ":", "/", "/">>) THEN i + 8 ELSE 0
      H == {k \in 1..Len(UrlHosts) : e # 0 /\ MatchAt(l, e, UrlHosts[k])}
  IN IF H = {} THEN <<>>
     ELSE LET c == e + Len(UrlHosts[CHOOSE k \in H : TRUE])
          IN IF c < Len(l) /\ l[c] = ":" /\ IsDigit(l[c + 1]) THEN DigitRun(l, c + 1) ELSE <<>>

\* the captures of the URL patterns
urlPatterns(l) ==
  LET I == {i \in 1..Len(l) : UrlAt(l, i) # <<>>}
  IN << IF I = {} THEN <<>> ELSE UrlAt(l, MinOf(I)) >>

\* a range test that lets port 0 through
InRangeMutant(p) == p >= 0 /\ p <= PORT_MAX

\* port >= PROCESS.PORT_MIN && port <= PROCESS.PORT_MAX
InRange(p) == p >= PORT_MIN /\ p <= PORT_MAX

\* the for loop over one class of patterns: the port of the first pattern
\* that matches with a port in range, as <<port>>; <<>> if there is none
FirstValid(caps) ==
  LET V == {k \in 1..Len(caps) :
              /\ caps[k] # <<>>
              /\ InRange(parseInt(caps[k]))}
  IN IF V = {} THEN <<>> ELSE <<parseInt(caps[MinOf(V)])>>

\* a class order that tries the bare URL first
ClassOrderMutant(l) == <<urlPatterns(l), positivePatterns(l), frameworkPatterns(l)>>

\* the three loops of detectPortFromLog, in the order they are written
ClassOrder(l) == <<frameworkPatterns(l), positivePatterns(l), urlPatterns(l)>>

\* an error test that looks for the first pattern only
IsErrorLineMutant(l) == \E i \in 1..Len(l) : MatchAt(l, i, errorPatterns[1])

\* detectPortFromLog, the first loop: some error pattern is found in the line
IsErrorLine(l) == \E k \in 1..Len(errorPatterns), i \in 1..Len(l) : MatchAt(l, i, errorPatterns[k])

\* runner.ts detectPortFromLog: <<port>>, or <<>> for null
detectPortFromLog(message) ==
  LET l == ToLower(message)
      classes == ClassOrder(l)
      Y == {c \in 1..Len(classes) : FirstValid(classes[c]) # <<>>}
  IN IF IsErrorLine(l) THEN <<>>
     ELSE IF Y = {} THEN <<>>
     ELSE FirstValid(classes[MinOf(Y)])

\* the log lines looked at: a head and a tail, each a phrase followed by a
\* number or by nothing, in either order
LineHeads ==
  {<<" ", "*", " ", "R", "u", "n", "n", "i", "n", "g", " ", "o", "n", " ", "h", "t", "t", "p", ":", "/", "/", "1", "2", "7", ".", "0", ".", "0", ".", "1">>,
   <<"L", "o", "c", "a", "l", " ", "U", "R", "L", ":", " ", "h", "t", "t", "p", ":", "/", "/", "l", "o", "c", "a", "l", "h", "o", "s", "t">>,
   <<"I", "N", "F", "O", ":", " ", "U", "v", "i", "c", "o", "r", "n", " ", "r", "u", "n", "n", "i", "n", "g", " ", "o", "n", " ", "h", "t", "t", "p", ":", "/", "/", "0", ".", "0", ".", "0", ".", "0">>,
   <<"S", "t", "a", "r", "t", "i", "n", "g", " ", "d", "e", "v", "e", "l", "o", "p", "m", "e", "n", "t", " ", "s", "e", "r", "v", "e", "r", " ", "a", "t", " ", "h", "t", "t", "p", ":", "/", "/", "1", "2", "7", ".", "0", ".", "0", ".", "1">>,
   <<"S", "e", "r", "v", "e", "r", " ", "l", "i", "s", "t", "e", "n", "i", "n", "g", " ", "o", "n", " ", "*">>,
   <<"L", "i", "s", "t", "e", "n", "i", "n", "g", " ", "o", "n", " ", "p", "o", "r", "t">>,
   <<"h", "t", "t", "p", ":", "/", "/", "l", "o", "c", "a", "l", "h", "o", "s", "t">>,
   <<"h", "t", "t", "p", ":", "/", "/", "e", "x", "a", "m", "p", "l", "e", ".", "c", "o", "m">>,
   <<"s", "e", "e">>}
LineNumbers ==
  {<<>>,
   <<":", "0">>,
   <<":", "1">>,
   <<":", "6", "5", "5", "3", "5">>,
   <<":", "6", "5", "5", "3", "6">>,
   <<":", "8", "0", "8", "0">>,
   <<" ", "8", "0", "8", "0">>}
LineTails ==
  {<<>>,
   <<" ", "E", "r", "r", "o", "r">>,
   <<" ", "f", "a", "i", "l", "e", "d">>,
   <<" ", "r", "e", "f", "u", "s", "e", "d">>,
   <<" ", "T", "i", "m", "e", "o", "u", "t">>,
   <<" ", "c", "a", "n", "n", "o", "t">>,
   <<" ", "u", "n", "a", "b", "l", "e">>,
   <<" ", "a", "l", "r", "e", "a", "d", "y", " ", "i", "n", " ", "u", "s", "e">>,
   <<" ", "b", "i", "n", "d">>,
   <<" ", "c", "o", "n", "n", "e", "c", "t", "i", "n", "g", " ", "t", "o">>,
   <<" ", "c", "o", "n", "n", "e", "c", "t", " ", "t", "o">>,
   <<" ", "C", "o", "n", "n", "e", "c", "t", "i", "o", "n", " ", "t", "o">>,
   <<" ", "h", "t", "t", "p", ":", "/", "/", "l", "o", "c", "a", "l", "h", "o", "s", "t">>,
   <<" ", "*", " ", "R", "u", "n", "n", "i", "n", "g", " ", "o", "n", " ", "h", "t", "t", "p", ":", "/", "/", "1", "2", "7", ".", "0", ".", "0", ".", "1">>}
TailNumbers ==
  {<<>>,
   <<":", "3", "0", "0", "0">>}
\* a line with two ports, the first of them not the server's
MultiplePortsLine ==
  <<"C", "o", "n", "n", "e", "c", "t", "e", "d", " ", "t", "o", " ", "D", "B", " ", "o", "n", " ", "p", "o", "r", "t", " ", "5", "4", "3", "2", ".", " ", "S", "e", "r", "v", "e", "r", " ", "l", "i", "s", "t", "e", "n", "i", "n", "g", " ", "o", "n", " ", "h", "t", "t", "p", ":", "/", "/", "0", ".", "0", ".", "0", ".", "0", ":", "8", "0", "0", "0">>

SniffLines ==
  {IF sw THEN b \o m \o a \o n ELSE a \o n \o b \o m :
     a \in LineHeads, n \in LineNumbers, b \in LineTails, m \in TailNumbers, sw \in BOOLEAN}
    \cup {MultiplePortsLine}

\* detectPortFromLog is about to be called for a log line
SniffInit ==
  /\ fn = "sniff"
  /\ arg \in SniffLines
  /\ out = <<>>

\* runner.ts startLogPolling calls detectPortFromLog(line)
DetectPort ==
  /\ fn = "sniff"
  /\ out = <<>>
  /\ out' = <<detectPortFromLog(arg)>>
  /\ UNCHANGED <<fn, arg, supervisorVars, tailVars, awaitVars>>

\* ---------------------------------------------------------------- the start command
\* tokens of start commands: the runner, its subcommands, a script
Tokens == {"uv", "run", "x", "--with", "sync", "app.py"}
MaxTokens == 3

\* runApp with every command put under the run subcommand
spawnArgsMutant(commandArgs) == <<"run">> \o commandArgs

\* runApp that passes no subcommand of the runner on as it is
spawnArgsRunOnlyMutant(commandArgs) ==
  IF commandArgs[1] = "uv" /\ Len(commandArgs) >= 2 /\ commandArgs[2] = "run"
  THEN <<"run">> \o SubSeq(commandArgs, 3, Len(commandArgs))
  ELSE <<"run">> \o commandArgs

\* runner.ts runApp: the arguments the runner is spawned with for the parsed
\* command. "uv run ..." loses its two first tokens and is put under run;
\* "uv x", "uv --with" and every other "uv ..." lose the first token; any
\* other command is put under run.
spawnArgs(commandArgs) ==
  IF commandArgs[1] = "uv"
  THEN IF Len(commandArgs) >= 2 /\ commandArgs[2] = "run"
       THEN <<"run">> \o SubSeq(commandArgs, 3, Len(commandArgs))
       ELSE IF Len(commandArgs) >= 2 /\ commandArgs[2] \in {"x", "--with"}
            THEN SubSeq(commandArgs, 2, Len(commandArgs))
            ELSE SubSeq(commandArgs, 2, Len(commandArgs))
  ELSE <<"run">> \o commandArgs

\* runApp is about to be called with a parsed command, which may hold no
\* token; previous holds the arguments of the call before, none yet
CommandInit ==
  /\ fn = "runApp"
  /\ \E n \in 0..MaxTokens : arg \in [command : [1..n -> Tokens], previous : {<<>>}]
  /\ out = <<>>

\* runApp for a command without token: the failure is returned before
\* anything is opened or spawned
RunAppEmptyCommand ==
  /\ fn = "runApp"
  /\ out = <<>>
  /\ arg.command = <<>>
  /\ out' = <<[success |-> FALSE, error |-> "empty_command"]>>
  /\ UNCHANGED <<fn, arg, supervisorVars, tailVars, awaitVars>>

\* runApp spawns the runner for the command
RunAppCommand ==
  /\ fn = "runApp"
  /\ out = <<>>
  /\ arg.command # <<>>
  /\ out' = <<spawnArgs(arg.command)>>
  /\ UNCHANGED <<fn, arg, supervisorVars, tailVars, awaitVars>>

\* runApp is called again with the runner's name followed by the arguments it
\* spawned the runner with
RunAppWrapped ==
  /\ fn = "runApp"
  /\ out # <<>>
  /\ arg.command # <<>>
  /\ arg.previous = <<>>
  /\ arg' = [command |-> <<"uv">> \o out[1], previous |-> out]
  /\ out' = <<spawnArgs(arg'.command)>>
  /\ UNCHANGED <<fn, supervisorVars, tailVars, awaitVars>>

\* ---------------------------------------------------------------- the sample of a process tree
\* processes 1..MaxProcs; 1 is the root pid of the app
MaxProcs == 4

\* the pids whose parent is p, as ps --ppid p or pgrep -P p lists them
ChildrenOf(ppid, p) == {c \in DOMAIN ppid : ppid[c] = p}

\* runner.ts getProcessTreePids: the parent and what ps/pgrep list for it
getProcessTreePids(ppid, parentPid) == {parentPid} \cup ChildrenOf(ppid, parentPid)

RECURSIVE SumOver(_, _)
\* the for loop of getProcessStats: the total of f over the pids of S
SumOver(f, S) ==
  IF S = {} THEN 0
  ELSE LET p == CHOOSE q \in S : TRUE IN f[p] + SumOver(f, S \ {p})

\* getProcessStats is about to be called for the live root pid 1; ppid gives
\* the parent of every other process (0: a process outside the tree of 1),
\* memory what pidusage reports for each process
StatsInit ==
  /\ fn = "stats"
  /\ arg \in [ppid : {f \in [2..MaxProcs -> 0..(MaxProcs - 1)] : \A p \in 2..MaxProcs : f[p] < p},
              memory : [1..MaxProcs -> {1, 2}]]
  /\ out = <<>>

\* runner.ts getProcessStats for a live pid: pidusage over getProcessTreePids,
\* the memory of the pids summed
GetTreeStats ==
  /\ fn = "stats"
  /\ out = <<>>
  /\ out' = <<SumOver(arg.memory, getProcessTreePids(arg.ppid, 1))>>
  /\ UNCHANGED <<fn, arg, supervisorVars, tailVars, awaitVars>>

\* ---------------------------------------------------------------- function calls: specification
PureInit ==
  /\ InitWith({"a1"})
  /\ ~isWindows
  /\ TailIdle
  /\ HealthInit \/ SniffInit \/ CommandInit \/ StatsInit

PureNext ==
  \/ \E alive \in BOOLEAN, age \in SampleAges : GetProcessStats(alive, age)
  \/ DetectPort
  \/ RunAppCommand
  \/ RunAppWrapped
  \/ RunAppEmptyCommand
  \/ GetTreeStats

PureSpec == PureInit /\ [][PureNext]_vars

\* C22: a health snapshot is running whenever the liveness probe succeeds;
\* when the probe fails it is zombie if the entry is older than 5000 ms and
\* unknown otherwise.
C22_HealthClassification ==
  (fn = "health" /\ out # <<>>)
    => /\ arg.alive => out[1] = "running"
       /\ (~arg.alive /\ arg.age > 5000) => out[1] = "zombie"
       /\ (~arg.alive /\ arg.age <= 5000) => out[1] = "unknown"

\* a pid that is not there was sampled at the last instant of the grace
\* period and found unknown
C22_Witness ==
  /\ fn = "health"
  /\ ~arg.alive
  /\ arg.age = 5000
  /\ out = <<"unknown">>

\* the line holds one of the negative signals, in any case of letters
NegativeSignal(line) ==
  LET l == ToLower(line)
  IN \E k \in 1..Len(errorPatterns), i \in 1..Len(l) : MatchAt(l, i, errorPatterns[k])

\* the port some positive pattern would yield for the line; <<>> if none does
PositivePort(line) ==
  LET l == ToLower(line)
  IN IF FirstValid(frameworkPatterns(l)) # <<>> THEN FirstValid(frameworkPatterns(l))
     ELSE IF FirstValid(positivePatterns(l)) # <<>> THEN FirstValid(positivePatterns(l))
     ELSE FirstValid(urlPatterns(l))

\* C23: the sniffer returns none for every line that holds a negative signal,
\* whatever positive pattern the line matches as well.
C23_NegativeSignalWins ==
  (fn = "sniff" /\ out # <<>> /\ NegativeSignal(arg)) => out[1] = <<>>

\* none was returned for a line that holds a negative signal and that a
\* framework pattern would have matched with a valid port
C23_Witness ==
  /\ fn = "sniff"
  /\ out = << <<>> >>
  /\ NegativeSignal(arg)
  /\ FirstValid(frameworkPatterns(ToLower(arg))) # <<>>

\* C24: for a line without negative signal the sniffer's result is the port
\* of the highest class that yields one, in the order framework-specific,
\* positive verb, bare URL; it is none only if no class yields a port.
\* For the line of the multiple-ports test, whose first number is 5432, it is
\* the port after the positive verb.
C24_HighestClassWins ==
  /\ (fn = "sniff" /\ out # <<>> /\ ~NegativeSignal(arg)) => out[1] = PositivePort(arg)
  /\ (fn = "sniff" /\ out # <<>> /\ arg = MultiplePortsLine) => out[1] = <<8000>>

\* the line holds a bare URL with port 3000 first and a framework message
\* with port 8080 after it; the result is the framework's port, which is not
\* the first number of the line
C24_Witness ==
  /\ fn = "sniff"
  /\ out = << <<8080>> >>
  /\ FirstValid(urlPatterns(ToLower(arg))) = <<3000>>
  /\ FirstValid(frameworkPatterns(ToLower(arg))) = <<8080>>
  /\ parseInt(ColonPort(ToLower(arg), 1)) = 3000

\* the numbers the positive patterns capture in the line, whatever their range
Candidates(line) ==
  LET l == ToLower(line)
      caps == frameworkPatterns(l) \o positivePatterns(l) \o urlPatterns(l)
  IN {parseInt(caps[k]) : k \in {j \in 1..Len(caps) : caps[j] # <<>>}}

\* C25: the sniffer returns none or a port p with 1 <= p <= 65535; 0 and 65536
\* are never returned, a line whose only candidates are these yields none; 1
\* and 65535 are returned when they are the candidate matched.
C25_PortWithinLimits ==
  (fn = "sniff" /\ out # <<>>) =>
     /\ out[1] # <<>> => (out[1][1] >= 1 /\ out[1][1] <= 65535)
     /\ out[1] # <<0>> /\ out[1] # <<65536>>
     /\ ~NegativeSignal(arg) =>
          LET C == Candidates(arg)
          IN /\ C = {1} => out[1] = <<1>>
             /\ C = {65535} => out[1] = <<65535>>
             /\ (C # {} /\ C \subseteq {0, 65536}) => out[1] = <<>>

\* the largest port was the candidate matched and was returned
C25_Witness ==
  /\ fn = "sniff"
  /\ out = << <<65535>> >>
  /\ Candidates(arg) = {65535}

\* C26: when runApp is called with the runner's name followed by the
\* arguments it spawned the runner with for a non-empty command, it spawns the
\* runner with exactly these arguments again; run is not put in front twice.
C26_CommandIdempotent ==
  (fn = "runApp" /\ out # <<>> /\ arg.previous # <<>>) => out = arg.previous

\* a command without the runner's name was put under run, and the wrapped
\* command was run with the same arguments
C26_Witness ==
  /\ fn = "runApp"
  /\ arg.previous = << <<"run", "app.py">> >>
  /\ arg.command = <<"uv", "run", "app.py">>
  /\ out = << <<"run", "app.py">> >>

\* C27: a close event or watch tick of an earlier instance of an app that is
\* delivered while a newer instance is registered leaves the newer instance's
\* registry entry and timers as they are and does not mark the app stopped.
C27_StaleEventSparesNewInstance ==
  [][ \A h \in DOMAIN handles :
        LET a == handles[h].app
        IN (/\ a \in DOMAIN runningProcesses
            /\ runningProcesses[a].process # h
            /\ CloseEvent(h) \/ WatchTick(h))
             => /\ runningProcesses' = runningProcesses
                /\ logPollTimers' = logPollTimers
                /\ statsMonitoringTimers' = statsMonitoringTimers
                /\ killTimers' = killTimers
                /\ apps'[a] = apps[a]
    ]_vars

\* C28: a terminate call, from its start to its return, leaves the log
\* polling and the health polling of the app active; they are disabled only
\* when the termination is observed.
C28_PollingOutlivesTerminateCall ==
  [][ /\ \A a \in DOMAIN apps :
           (a \in DOMAIN runningProcesses /\ \E exc \in BOOLEAN : StopAppCall(a, exc))
             => /\ a \in statsMonitoringTimers => a \in statsMonitoringTimers'
                /\ logPollTimers' = logPollTimers
      /\ \A c \in stopCalls :
           (\E err \in BOOLEAN : StopAppResume(c, err))
             => /\ statsMonitoringTimers' = statsMonitoringTimers
                /\ logPollTimers' = logPollTimers
    ]_vars

\* C29: at every moment an app has at most one kill-fallback timer pending;
\* a pending timer is the one recorded in the stopping table and the registry
\* still holds the instance its terminate call was made on; a stopping record
\* belongs to the instance the registry holds.
C29_OneFallbackForRegisteredInstance ==
  /\ \A s, t \in killTimers : s.app = t.app => s = t
  /\ \A t \in killTimers :
       /\ t.app \in DOMAIN stoppingProcesses
       /\ stoppingProcesses[t.app] = t
       /\ t.app \in DOMAIN runningProcesses
       /\ runningProcesses[t.app].process = t.h
  /\ \A a \in DOMAIN stoppingProcesses :
       /\ a \in DOMAIN runningProcesses
       /\ runningProcesses[a].process = stoppingProcesses[a].h

\* ---------------------------------------------------------------- fair scheduling
\* Timers and events that are due are eventually handled: the close event of
\* a child that has ended, the watch interval of an adopted handle, the health
\* interval of an app.
Fairness ==
  /\ \A h \in 1..MaxHandles : WF_vars(CloseEvent(h))
  /\ \A h \in 1..MaxHandles : WF_vars(WatchTick(h))
  /\ \A a \in Apps : WF_vars(\E age \in HealthAges : HealthTick(a, age))

FairSpec == Init /\ [][Next]_vars /\ Fairness

\* the registry holds handle h and the root pid of h is dead
DeadButRegistered(h) ==
  /\ h \in DOMAIN handles
  /\ Registered(h)
  /\ handles[h].pid # NoPid
  /\ ~isProcessAlive(handles[h].pid)

\* the entry of handle h is gone and its stop notification was emitted, or
\* the supervisor has exited
RemovedAndNotified(h) ==
  \/ h \notin DOMAIN handles
  \/ ~Registered(h) /\ notified[h] >= 1

\* C30: once the root pid of a registered handle, spawned or adopted, is dead,
\* the entry is eventually removed and a stop notification emitted, whether
\* or not terminate was called; an adopted handle's entry is removed only by
\* a polling step (its watch tick or the health tick) or by the supervisor's
\* exit.
C30_DeadEntryEventuallyRemoved ==
  /\ \A h \in 1..MaxHandles : DeadButRegistered(h) ~> RemovedAndNotified(h)
  /\ [][ \A h \in DOMAIN handles :
           (handles[h].kind = "adopted" /\ Registered(h) /\ ~Registered(h)')
             => \/ WatchTick(h)
                \/ \E age \in HealthAges : HealthTick(handles[h].app, age)
                \/ Quit ]_vars

\* the entry of an adopted handle was removed with its stop notification by
\* the watch tick that found the pid dead, while a terminate call on the
\* handle was still waiting for the delivery of its signal
C30_Witness ==
  \E h \in DOMAIN handles :
    /\ handles[h].kind = "adopted"
    /\ ~isProcessAlive(handles[h].pid)
    /\ ~Registered(h)
    /\ notified[h] >= 1
    /\ "close" \in emitted[h]
    /\ \E c \in stopCalls : c.h = h

\* no handler is suspended in front of an await
Quiescent ==
  /\ up
  /\ runCalls = <<>>
  /\ stopCalls = {}
  /\ killCallbacks = {}

\* C31: whenever no handler is in the middle of executing, an app has status
\* running if and only if the registry holds an entry for it, and then the
\* app's pid is the pid of the entry's handle.
C31_RunningIffRegistered ==
  Quiescent =>
    \A a \in DOMAIN apps :
      /\ apps[a].status = "running" <=> a \in DOMAIN runningProcesses
      /\ a \in DOMAIN runningProcesses
           => apps[a].pid = handles[runningProcesses[a].process].pid

\* C32: after the stop notification of an app and until the app is launched
\* or adopted again, no log-poll tick raises a port-detected event for it,
\* and the stopped app's record holds no port.
C32_StoppedAppIsSilent ==
  [][ \A h \in logPollTimers :
        LET a == handles[h].app
        IN (/\ a \in DOMAIN apps
            /\ a \notin DOMAIN runningProcesses
            /\ notified[h] >= 1)
             => /\ \A p \in Ports : ~LogPollTick(h, p)
                /\ a \in DOMAIN apps' => apps'[a].port = NoPort
    ]_vars

\* C33: after a fresh launch, as long as the launched process has written
\* nothing, no line is forwarded: what earlier runs left in the log file is
\* not forwarded again (and so sets no port).
C33_FreshLaunchSkipsOldContent ==
  (~recovered /\ shrink = "no" /\ logFile = atAdoption) => forwarded = <<>>

\* ---------------------------------------------------------------- the health tick with its await
\* a sample that suspends the tick whatever the probe finds
SampleSuspendsMutant(alive) == TRUE

\* runner.ts getProcessStats: the probe is synchronous; the call reaches an
\* await (getProcessTreePids, pidusage) only inside if (isAlive).  A call
\* that reaches none resolves at once and the tick goes on in the same turn.
SampleSuspends(alive) == alive

\* runner.ts startStatsMonitoring, the interval callback after the await:
\* c is what the tick read and sampled before it
HealthOutcome(c) ==
  IF c.status = "zombie" \/ ~c.isAlive
    THEN \* cleanupTerminatedProcess
         /\ cleanupProcessResources(c.app)
         /\ handleProcessStopped(c.app, c.h)
    ELSE UNCHANGED <<runningProcesses, logPollTimers, statsMonitoringTimers,
                     apps, persisted, notified>>

\* runner.ts startStatsMonitoring, a tick of the interval of app a up to the
\* await on getProcessStats, and beyond it if the call does not suspend
HealthTickStart(a, age) ==
  /\ up
  /\ a \in statsMonitoringTimers
  /\ IF a \notin DOMAIN runningProcesses
       THEN /\ statsMonitoringTimers' = statsMonitoringTimers \ {a}
            /\ UNCHANGED <<runningProcesses, logPollTimers, apps, persisted, notified,
                           healthCalls>>
       ELSE LET h == runningProcesses[a].process
                pid == handles[h].pid
                alive == isProcessAlive(pid)
                c == [app |-> a, h |-> h, status |-> HealthStatus(alive, age),
                      isAlive |-> alive]
            IN IF pid = NoPid
                 THEN UNCHANGED <<runningProcesses, logPollTimers, statsMonitoringTimers,
                                  apps, persisted, notified, healthCalls>>
                 ELSE IF SampleSuspends(alive)
                   THEN /\ Cardinality(healthCalls) < MaxOverlap
                        /\ healthCalls' = healthCalls \cup {c}
                        /\ UNCHANGED <<runningProcesses, logPollTimers, statsMonitoringTimers,
                                       apps, persisted, notified>>
                   ELSE /\ HealthOutcome(c)
                        /\ UNCHANGED healthCalls
  /\ UNCHANGED <<up, isWindows, tailVars, pureVars, removeCalls, nextId, osAlive, handles,
                 emitted, stoppingProcesses, watchTimers, killTimers, killCallbacks,
                 stopCalls, runCalls, saveAppsTimer, lastRecovery>>

\* the suspended tick c resumes with the result of getProcessStats
HealthTickResume(c) ==
  /\ up
  /\ c \in healthCalls
  /\ healthCalls' = healthCalls \ {c}
  /\ HealthOutcome(c)
  /\ UNCHANGED <<up, isWindows, tailVars, pureVars, removeCalls, nextId, osAlive, handles,
                 emitted, stoppingProcesses, watchTimers, killTimers, killCallbacks,
                 stopCalls, runCalls, saveAppsTimer, lastRecovery>>

SampleNext ==
  \/ \E a \in DOMAIN apps, io \in SpawnOutcomes, order \in TickOrders :
       RunAppDirect(a, "ok", io, order)
  \/ \E a \in DOMAIN apps, exc \in BOOLEAN : StopAppCall(a, exc)
  \/ \E c \in stopCalls, err \in BOOLEAN : StopAppResume(c, err)
  \/ \E t \in killTimers : KillTimeout(t)
  \/ \E k \in killCallbacks : SigkillCallback(k)
  \/ \E h \in DOMAIN handles : CloseEvent(h)
  \/ \E a \in DOMAIN apps, age \in HealthAges : HealthTickStart(a, age)
  \/ \E c \in healthCalls : HealthTickResume(c)
  \/ \E h \in logPollTimers, p \in Ports : LogPollTick(h, p)
  \/ \E p \in osAlive : ProcessExit(p)

SampleSpec == Init /\ [][SampleNext]_vars

\* the registry holds for the app of tick c the entry the tick sampled
SampledEntryCurrent(c) ==
  /\ c.app \in DOMAIN runningProcesses
  /\ runningProcesses[c.app].process = c.h

\* C34: a health tick that resumes after its sample removes a registry entry
\* or emits a stop notification only if the entry it sampled is still the
\* entry of the app; a tick whose entry was removed or replaced does nothing.
C34_ResumedTickActsOnSampledEntry ==
  [][ \A c \in healthCalls :
        (HealthTickResume(c) /\ ~SampledEntryCurrent(c))
          => /\ runningProcesses' = runningProcesses
             /\ notified' = notified
             /\ apps' = apps
             /\ logPollTimers' = logPollTimers
    ]_vars

\* a tick is suspended on its sample and the entry it sampled has been
\* replaced by a newer instance of the app
C34_Witness ==
  \E c \in healthCalls :
    /\ c.app \in DOMAIN runningProcesses
    /\ runningProcesses[c.app].process # c.h
    /\ ~isProcessAlive(handles[c.h].pid)

\* ---------------------------------------------------------------- the runner's operations called directly
\* runner.ts recoverProcess (exported): the existing log is passed to onLog, a
\* RecoveredProcessHandle is made for the pid and setupProcessHandlers
\* registers it; the function tests nothing and returns nothing
RecoverProcess(a, pid) ==
  LET h == nextId IN
  /\ up
  /\ nextId <= MaxHandles
  /\ nextId' = nextId + 1
  /\ handles' = Put(handles, h, [app |-> a, kind |-> "adopted", pid |-> pid])
  /\ emitted' = Put(emitted, h, {})
  /\ notified' = Put(notified, h, 0)
  /\ setupProcessHandlers(h, a, "adopted")
  /\ UNCHANGED <<up, isWindows, tailVars, pureVars, awaitVars, osAlive, stoppingProcesses,
                 killTimers, killCallbacks, stopCalls, runCalls, apps, persisted,
                 saveAppsTimer, lastRecovery>>

RunnerNext ==
  \/ \E a \in DOMAIN apps, io \in SpawnOutcomes, order \in TickOrders :
       RunAppDirect(a, "ok", io, order)
  \/ \E a \in DOMAIN apps, pid \in osAlive : RecoverProcess(a, pid)
  \/ \E a \in DOMAIN apps, exc \in BOOLEAN : StopAppCall(a, exc)
  \/ \E c \in stopCalls, err \in BOOLEAN : StopAppResume(c, err)
  \/ \E t \in killTimers : KillTimeout(t)
  \/ \E k \in killCallbacks : SigkillCallback(k)
  \/ \E h \in DOMAIN handles : CloseEvent(h)
  \/ \E h \in watchTimers : WatchTick(h)
  \/ \E a \in DOMAIN apps, age \in HealthAges : HealthTick(a, age)
  \/ \E h \in logPollTimers, p \in Ports : LogPollTick(h, p)
  \/ \E p \in osAlive : ProcessExit(p)

RunnerSpec == Init /\ [][RunnerNext]_vars

\* C35: an operation that creates a registry entry, launch or adoption, that
\* is called while the registry holds an entry for the app leaves that entry
\* and the timers as they are.
C35_ExistingEntryNeverReplaced ==
  [][ \A a \in DOMAIN runningProcesses :
        (\/ \E io \in SpawnOutcomes, order \in TickOrders : RunAppDirect(a, "ok", io, order)
         \/ \E pid \in osAlive : RecoverProcess(a, pid))
          => /\ runningProcesses' = runningProcesses
             /\ logPollTimers' = logPollTimers
             /\ watchTimers' = watchTimers
             /\ statsMonitoringTimers' = statsMonitoringTimers
    ]_vars

RemoveAppCall(a, exc, fail) ==
  /\ up
  /\ a \in DOMAIN apps
  /\ a \notin removeCalls
  /\ IF isRunning(a)
       THEN /\ ~fail
            /\ exc => ~isWindows
            /\ removeCalls' = removeCalls \cup {a}
            /\ LET h == runningProcesses[a].process
               IN IF StopAppCheck(a) # "proceed"
                    THEN UNCHANGED <<statsMonitoringTimers, stopCalls>>
                    ELSE /\ statsMonitoringTimers' = statsMonitoringTimers \ {a}
                         /\ IF exc
                              THEN UNCHANGED stopCalls
                              ELSE /\ Cardinality(UsedSerials(h)) < MaxOverlap
                                   /\ stopCalls' = stopCalls \cup
                                        {[app |-> a, h |-> h, n |-> FreeSerial(h)]}
            /\ UNCHANGED <<apps, persisted>>
       ELSE /\ ~exc
            /\ apps' = IF fail THEN apps ELSE Del(apps, a)
            /\ persisted' = IF fail THEN persisted ELSE saveApps(apps')
            /\ UNCHANGED <<removeCalls, statsMonitoringTimers, stopCalls>>
  /\ UNCHANGED <<up, isWindows, tailVars, pureVars, healthCalls, nextId, osAlive, handles,
                 emitted, runningProcesses, stoppingProcesses, logPollTimers, watchTimers,
                 killTimers, killCallbacks, runCalls, saveAppsTimer, notified, lastRecovery>>

\* index.ts remove-app handler resumed: stopApp has returned, whatever its
\* result, and the one-second wait is over; the directory is deleted (or the
\* deletion throws: fail), the app is removed from the list and saved
RemoveAppResume(a, fail) ==
  /\ up
  /\ a \in removeCalls
  /\ \A c \in stopCalls : c.app # a
  /\ removeCalls' = removeCalls \ {a}
  /\ apps' = IF fail THEN apps ELSE Del(apps, a)
  /\ persisted' = IF fail THEN persisted ELSE saveApps(apps')
  /\ UNCHANGED <<up, isWindows, tailVars, pureVars, healthCalls, nextId, osAlive, handles,
                 emitted, runningProcesses, stoppingProcesses, statsMonitoringTimers,
                 logPollTimers, watchTimers, killTimers, killCallbacks, stopCalls,
                 runCalls, saveAppsTimer, notified, lastRecovery>>

RemoveNext ==
  \/ \E a \in DOMAIN apps, io \in SpawnOutcomes, order \in TickOrders :
       RunAppDirect(a, "ok", io, order)
  \/ \E a \in DOMAIN apps, exc \in BOOLEAN : StopAppCall(a, exc)
  \/ \E c \in stopCalls, err \in BOOLEAN : StopAppResume(c, err)
  \/ \E t \in killTimers : KillTimeout(t)
  \/ \E k \in killCallbacks : SigkillCallback(k)
  \/ \E h \in DOMAIN handles : CloseEvent(h)
  \/ \E a \in DOMAIN apps, age \in HealthAges : HealthTick(a, age)
  \/ \E h \in logPollTimers, p \in Ports : LogPollTick(h, p)
  \/ \E p \in osAlive : ProcessExit(p)
  \/ \E a \in DOMAIN apps, exc \in BOOLEAN, fail \in BOOLEAN : RemoveAppCall(a, exc, fail)
  \/ \E a \in removeCalls, fail \in BOOLEAN : RemoveAppResume(a, fail)

RemoveSpec == FrameInit /\ [][RemoveNext]_vars

\* C37: once an app was removed from the list, the registry holds no entry
\* for it.
C37_RemovedAppIsUntracked ==
  \A a \in DOMAIN runningProcesses : a \in DOMAIN apps

RECURSIVE Descendants(_, _)
\* the processes of the tree under p: its children, their children, and deeper
Descendants(ppid, p) ==
  ChildrenOf(ppid, p) \cup UNION {Descendants(ppid, c) : c \in ChildrenOf(ppid, p)}

\* C38: the memory of a health sample for a live root pid is the total over
\* the root and every process of its descendant tree, children, grandchildren
\* and deeper.
C38_SampleCoversWholeTree ==
  (fn = "stats" /\ out # <<>>)
    => out[1] = SumOver(arg.memory, {1} \cup Descendants(arg.ppid, 1))

\* the ports within 1..65535 that follow a bare URL anywhere in the line
ValidUrlPorts(line) ==
  LET l == ToLower(line)
  IN {parseInt(UrlAt(l, i)) :
        i \in {j \in 1..Len(l) : /\ UrlAt(l, j) # <<>>
                                 /\ parseInt(UrlAt(l, j)) >= 1
                                 /\ parseInt(UrlAt(l, j)) <= 65535}}

\* C39: an out-of-range candidate does not make the sniffer return none: for
\* a line without negative signal in which some candidate, here a port after
\* a bare URL, is in range, a port is returned, also when an earlier
\* candidate of the same class is out of range.
C39_OutOfRangeDoesNotShortCircuit ==
  (fn = "sniff" /\ out # <<>> /\ ~NegativeSignal(arg) /\ ValidUrlPorts(arg) # {})
    => out[1] # <<>>

\* C40: a command without token fails with the empty-command error and
\* nothing is spawned.  Otherwise the runner is spawned with run and the
\* tokens after "uv run" if the command starts with these two, with the
\* tokens after "uv" if it starts with uv and something else than run (or
\* nothing), and with run and the whole command if it does not start with uv.
C40_RunnerArguments ==
  (fn = "runApp" /\ out # <<>>) =>
    LET X == arg.command
    IN IF X = <<>> THEN out[1] = [success |-> FALSE, error |-> "empty_command"]
       ELSE IF X[1] = "uv" /\ Len(X) >= 2 /\ X[2] = "run"
         THEN out[1] = <<"run">> \o SubSeq(X, 3, Len(X))
       ELSE IF X[1] = "uv" THEN out[1] = Tail(X)
       ELSE out[1] = <<"run">> \o X

\* the execute-package subcommand was passed on as it is
C40_Witness ==
  /\ fn = "runApp"
  /\ arg.previous = <<>>
  /\ arg.command = <<"uv", "x", "app.py">>
  /\ out = << <<"x", "app.py">> >>

====
